---- MODULE Spec2Model ----
(***************************************************************************)
(* Model of the call-status polling loop of VOX                            *)
(* (VAPIService.setupWebhookHandler, src/VOX/src/services/vapiService.ts). *)
(*                                                                         *)
(* One handler (the closure returned by setupWebhookHandler) owns          *)
(* lastCallStatus, transcriptProcessed, consecutiveErrors and pollDelay.   *)
(* Every watch w started through the handler owns isPolling[w] and         *)
(* pollTimeout[w].  JavaScript runs each callback to completion, so every  *)
(* action below is one callback: a timer firing up to the await of         *)
(* getCall, or the continuation of pollOnce after that await.              *)
(***************************************************************************)
EXTENDS Integers, Sequences, FiniteSets, TLC

\* ------------------------------------------------------------------ bounds
\* Regular fetches one watch may start before the model stops scheduling.
MaxFetches == 7

\* Invocations of one watch's cancellation handle.
MaxCancels == 2

\* Regular fetches the two watches of SpecTwo may start between them.
MaxFetchesTwo == 6

\* Watches that exist in the model; Spec starts only the first one.
AllWatches == {1, 2}
SingleWatch == {1}

\* --------------------------------------------------------- program constants
MAX_CONSECUTIVE_ERRORS == 5
MAX_POLL_DELAY == 30000
BASE_POLL_DELAY == 5000
INITIAL_DELAY == 3000

\* ------------------------------------------------------------ strings
\* A string is a sequence of one-character strings.
AI_PREFIX == <<"A", "I", ":">>
USER_PREFIX == <<"U", "s", "e", "r", ":">>
AUDIO_DETECTED ==
  <<"A", "u", "d", "i", "o", " ", "d", "e", "t", "e", "c", "t", "e", "d">>

Min(a, b) == IF a < b THEN a ELSE b

\* s.substring(from) with a 0-based index
Substring(s, from) == SubSeq(s, from + 1, Len(s))

\* s.startsWith(p)
StartsWith(s, p) == Len(s) >= Len(p) /\ SubSeq(s, 1, Len(p)) = p

\* s.includes(c) for a one-character c
Includes(s, c) == \E i \in 1..Len(s) : s[i] = c

RECURSIVE TrimStart(_)
TrimStart(s) ==
  IF s # <<>> /\ Head(s) = " " THEN TrimStart(Tail(s)) ELSE s

RECURSIVE TrimEnd(_)
TrimEnd(s) ==
  IF s # <<>> /\ s[Len(s)] = " " THEN TrimEnd(SubSeq(s, 1, Len(s) - 1)) ELSE s

\* s.trim()
Trim(s) == TrimEnd(TrimStart(s))

\* ------------------------------------------------------- transcript parsing
\* Which alternative of (AI:|User:) matches s at 0-based position q, or <<>>.
PrefixAt(s, q) ==
  IF StartsWith(Substring(s, q), AI_PREFIX) THEN AI_PREFIX
  ELSE IF StartsWith(Substring(s, q), USER_PREFIX) THEN USER_PREFIX
  ELSE <<>>

\* transcript.split(/(?=(AI:|User:))/g): the lookahead matches the empty string
\* in front of every prefix; an empty match at the last split point p is
\* skipped (so there is no split at position 0), and at every other match the
\* piece since p is pushed, followed by the captured group.
RECURSIVE SplitFrom(_, _, _)
SplitFrom(s, p, q) ==
  IF q >= Len(s) THEN << SubSeq(s, p + 1, Len(s)) >>
  ELSE IF q # p /\ PrefixAt(s, q) # <<>>
       THEN << SubSeq(s, p + 1, q), PrefixAt(s, q) >> \o SplitFrom(s, q, q + 1)
       ELSE SplitFrom(s, p, q + 1)

Split(s) == IF s = <<>> THEN << <<>> >> ELSE SplitFrom(s, 0, 0)

\* .filter(line => line.trim())
NonBlank(lines) == SelectSeq(lines, LAMBDA l : Trim(l) # <<>>)

\* The speaker a line is attributed to (the body of lines.forEach).
SpeakerOf(line) ==
  IF StartsWith(line, AI_PREFIX) THEN "VOX" ELSE "Other Party"

\* The content of a line once its prefix is cut off.
ContentOf(line) ==
  IF StartsWith(line, AI_PREFIX) THEN Trim(Substring(line, 3))
  ELSE IF StartsWith(line, USER_PREFIX) THEN Trim(Substring(line, 5))
  ELSE IF ~Includes(line, ":") THEN Trim(line)
  ELSE Trim(line)

\* ------------------------------------------------------------------ events
NoCall == [status |-> "", endedAt |-> FALSE, transcript |-> <<>>, summary |-> ""]

Event(t, st, role, speaker, content, call) ==
  [type |-> t, status |-> st, role |-> role, speaker |-> speaker,
   content |-> content, data |-> call]

StatusEvent(st) == Event("call-status", st, "", "", <<>>, NoCall)

TranscriptEvent(line) ==
  Event("transcript", "",
        IF SpeakerOf(line) = "VOX" THEN "assistant" ELSE "user",
        SpeakerOf(line), ContentOf(line), NoCall)

SummaryEvent(summary) ==
  Event("transcript", "", "system", "System", <<"Call Summary: ", summary>>, NoCall)

CallEndedEvent(call) == Event("call-ended", "", "", "", <<>>, call)

\* Variant: the placeholder 'Audio detected' is not filtered out.
RECURSIVE LineEventsKeepPlaceholder(_)
LineEventsKeepPlaceholder(lines) ==
  IF lines = <<>> THEN <<>>
  ELSE (IF ContentOf(Head(lines)) # <<>>
        THEN << TranscriptEvent(Head(lines)) >> ELSE <<>>)
       \o LineEventsKeepPlaceholder(Tail(lines))

\* The transcript events of one raw transcript, in order: one per kept line.
RECURSIVE LineEvents(_)
LineEvents(lines) ==
  IF lines = <<>> THEN <<>>
  ELSE (IF ContentOf(Head(lines)) # <<>> /\ ContentOf(Head(lines)) # AUDIO_DETECTED
        THEN << TranscriptEvent(Head(lines)) >> ELSE <<>>)
       \o LineEvents(Tail(lines))

TranscriptEvents(call) ==
  IF Len(call.transcript) > 0 THEN LineEvents(NonBlank(Split(call.transcript)))
  ELSE <<>>

\* Variant: call-ended emitted before the summary.
TerminalEventsEndedFirst(call) ==
  TranscriptEvents(call)
  \o << CallEndedEvent(call) >>
  \o (IF call.summary # "" THEN << SummaryEvent(call.summary) >> ELSE <<>>)

\* Variant: the summary emitted before the transcript lines.
TerminalEventsSummaryFirst(call) ==
  (IF call.summary # "" THEN << SummaryEvent(call.summary) >> ELSE <<>>)
  \o TranscriptEvents(call)
  \o << CallEndedEvent(call) >>

\* Everything the terminal block of a tick passes to onEvent, in order.
TerminalEvents(call) ==
  TranscriptEvents(call)
  \o (IF call.summary # "" THEN << SummaryEvent(call.summary) >> ELSE <<>>)
  \o << CallEndedEvent(call) >>

\* (call.status === 'ended' || call.endedAt)
IsTerminal(call) == call.status = "ended" \/ call.endedAt

\* ------------------------------------------------------- provider outcomes
\* call.status as the provider reports it ("" stands for an absent status).
Statuses == {"", "ringing", "in-progress", "ended"}

T_EMPTY == <<>>
T_MIXED == <<"h", "i", " ", "A", "I", ":", " ", "o", "k", " ",
             "U", "s", "e", "r", ":", " ", "n", "o">>
Transcripts == {T_EMPTY, T_MIXED}

\* call.analysis?.summary ("" stands for an absent summary).
Summaries == {"", "done"}

\* The call resources getCall may resolve to.
Calls == [status : Statuses, endedAt : BOOLEAN,
          transcript : Transcripts, summary : Summaries]

\* The errors getCall may reject with, by what the catch block looks at.
Errors == [rateLimit : BOOLEAN, cors : BOOLEAN]

NoError == [rateLimit |-> FALSE, cors |-> FALSE]

\* ------------------------------------------------------------------- state
VARIABLES
  lastCallStatus,       \* handler: status of the last call-status emitted
  transcriptProcessed,  \* handler: the terminal block has run
  consecutiveErrors,    \* handler: failed fetches since the last success
  pollDelay,            \* handler: delay of the next regular tick, in ms
  isPolling,            \* watch -> BOOLEAN
  pollTimeout,          \* watch -> the timer pollTimeout refers to
  pc,                   \* watch -> "unstarted" | "waiting" | "fetching"
  finalCheck,           \* watch -> "none" | "timer" | "fetching" | "done"
  events,               \* every event passed to onEvent, in order
  emittedBy,            \* history: the watch that emitted events[i]
  cancelled,            \* history: invocations of the cancellation handle
  fetchCount,           \* history: regular fetches started
  finalFetches,         \* history: final-check fetches started
  lastOutcome           \* history: how the last completed fetch ended

\* The turn loop's side: one executeAction call and one detectDtmfFromText call.
VARIABLES
  exPc,                 \* "idle" | "awaiting" | "returned" | "thrown"
  exArgs,               \* the decision executeAction was called with
  exCustomer,           \* its customerNumber argument ("" when absent)
  exCalls,              \* the callback invocations it made, in order
  exResult,             \* the ExecutionResult it returned
  dtText,               \* the transcript detectDtmfFromText was given
  dtResult              \* what it returned

\* One parse of a raw transcript at terminal detection.
VARIABLES
  psFragments,          \* the fragments the raw transcript is made of
  psEvents,             \* the transcript events emitted for it
  psDone                \* the parse has run

\* The Dashboard's consumer callback, alone.
VARIABLES
  cvSeen,               \* the events passed to the callback, in order
  cvStream              \* streamEvents

\* The interval-based variant of setupWebhookHandler, one watch.
VARIABLES
  ivLastCallStatus,     \* handler: status of the last call-status emitted
  ivProcessed,          \* handler: transcriptProcessed
  ivInterval,           \* "none" | "running" | "cleared"
  ivInFlight,           \* callbacks of the interval awaiting getCall
  ivEvents,             \* every event passed to onEvent, in order
  ivTicks,              \* history: ticks of the interval so far
  ivTerminalResolves    \* history: fetches that resolved to a terminal call

\* The Dashboard component across successive calls.
VARIABLES
  dbStatus,             \* callStatus
  dbStream,             \* streamEvents, each entry with the call it came from
  dbCurrentCall,        \* currentCall: whether set, and its vapiCallId
  dbStart,              \* call -> how far its handleStartCall has run
  dbWatcher,            \* call -> "none" | "polling" | "stopped"
  dbEmitted,            \* call -> events its watcher has passed to the callback
  dbEnding,             \* calls whose End Call click awaits endCall
  dbTimers,             \* pending setTimeout callbacks
  dbLatest,             \* history: the call handleStartCall was last run for
  dbStatusBy            \* history: the call whose code last set callStatus

\* The webhook server's event store.
VARIABLES
  callEvents,           \* call id -> whether the Map has the key, and its list
  stLog                 \* history: the requests served, with their responses

executorVars == << exPc, exArgs, exCustomer, exCalls, exResult >>
detectorVars == << dtText, dtResult >>
turnVars == << executorVars, detectorVars >>
parserVars == << psFragments, psEvents, psDone >>
consumerVars == << cvSeen, cvStream >>
intervalVars == << ivLastCallStatus, ivProcessed, ivInterval, ivInFlight,
                   ivEvents, ivTicks, ivTerminalResolves >>
dashVars == << dbStatus, dbStream, dbCurrentCall, dbStart, dbWatcher, dbEmitted,
               dbEnding, dbTimers, dbLatest, dbStatusBy >>
storeVars == << callEvents, stLog >>
laterVars == << intervalVars, dashVars, storeVars >>
sideVars == << parserVars, consumerVars, laterVars >>

pollVars == << lastCallStatus, transcriptProcessed, consecutiveErrors, pollDelay,
               isPolling, pollTimeout, pc, finalCheck, events, emittedBy,
               cancelled, fetchCount, finalFetches, lastOutcome >>

vars == << pollVars, turnVars, sideVars >>

handlerVars == << lastCallStatus, transcriptProcessed, consecutiveErrors, pollDelay >>

NoTimer == [pending |-> FALSE, delay |-> 0]
Timer(ms) == [pending |-> TRUE, delay |-> ms]

NoOutcome == [kind |-> "none", final |-> FALSE, call |-> NoCall, error |-> NoError]
Resolved(call, final) ==
  [kind |-> "ok", final |-> final, call |-> call, error |-> NoError]
Rejected(err, final) ==
  [kind |-> "error", final |-> final, call |-> NoCall, error |-> err]

\* A decision: the fields of TakeActionArgs that executeAction reads.
NoArgs == [action |-> "", digit |-> "", say |-> ""]

\* ExecutionResult
Result(executed, action, details) ==
  [executed |-> executed, action |-> action, details |-> details]

NoResult == [executed |-> FALSE, action |-> "", details |-> <<>>]

\* executeAction has not been called.
ExecutorIdle ==
  /\ exPc = "idle"
  /\ exArgs = NoArgs
  /\ exCustomer = ""
  /\ exCalls = <<>>
  /\ exResult = NoResult

\* What detectDtmfFromText returns when no pattern matches, and before a call.
Null == [heard |-> "", action |-> "null", digit |-> "", confidence |-> ""]
NotCalled == [heard |-> "", action |-> "", digit |-> "", confidence |-> ""]

\* detectDtmfFromText has not been called.
DetectorIdle ==
  /\ dtText = <<>>
  /\ dtResult = NotCalled

ParserIdle ==
  /\ psFragments = <<>>
  /\ psEvents = <<>>
  /\ psDone = FALSE

ConsumerIdle ==
  /\ cvSeen = <<>>
  /\ cvStream = <<>>

\* setupWebhookHandler(onEvent) of the interval variant, before a watch.
IntervalIdle ==
  /\ ivLastCallStatus = ""
  /\ ivProcessed = FALSE
  /\ ivInterval = "none"
  /\ ivInFlight = 0
  /\ ivEvents = <<>>
  /\ ivTicks = 0
  /\ ivTerminalResolves = 0

\* Calls the Dashboard is asked to place, in order.
MaxCalls == 2
DashCalls == 1..MaxCalls

NoCurrentCall == [set |-> FALSE, vapiCallId |-> 0]

\* The Dashboard as mounted: no call yet.
DashIdle ==
  /\ dbStatus = "idle"
  /\ dbStream = <<>>
  /\ dbCurrentCall = NoCurrentCall
  /\ dbStart = [c \in DashCalls |-> "none"]
  /\ dbWatcher = [c \in DashCalls |-> "none"]
  /\ dbEmitted = [c \in DashCalls |-> 0]
  /\ dbEnding = {}
  /\ dbTimers = {}
  /\ dbLatest = 0
  /\ dbStatusBy = [call |-> 0, by |-> ""]

\* The call ids requests name.
StoreIds == {"c1", "c2"}

NoEntry == [has |-> FALSE, list |-> <<>>]

\* const callEvents = new Map()
StoreIdle ==
  /\ callEvents = [id \in StoreIds |-> NoEntry]
  /\ stLog = <<>>

LaterIdle == IntervalIdle /\ DashIdle /\ StoreIdle

SideIdle == ParserIdle /\ ConsumerIdle /\ LaterIdle

\* setupWebhookHandler(onEvent): the closure state of a new handler.
HandlerInit ==
  /\ lastCallStatus = ""
  /\ transcriptProcessed = FALSE
  /\ consecutiveErrors = 0
  /\ pollDelay = BASE_POLL_DELAY
  /\ isPolling = [w \in AllWatches |-> FALSE]
  /\ pollTimeout = [w \in AllWatches |-> NoTimer]
  /\ pc = [w \in AllWatches |-> "unstarted"]
  /\ finalCheck = [w \in AllWatches |-> "none"]
  /\ events = <<>>
  /\ emittedBy = <<>>
  /\ cancelled = [w \in AllWatches |-> 0]
  /\ fetchCount = [w \in AllWatches |-> 0]
  /\ finalFetches = [w \in AllWatches |-> 0]
  /\ lastOutcome = [w \in AllWatches |-> NoOutcome]

Init == HandlerInit /\ ExecutorIdle /\ DetectorIdle /\ SideIdle

\* onEvent(e) for every e of es, by watch w
Emit(w, es) ==
  /\ events' = events \o es
  /\ emittedBy' = emittedBy \o [i \in 1..Len(es) |-> w]

\* ----------------------------------------------------------------- actions
\* handler(callId): isPolling = true and the first tick is scheduled.
Watch(w) ==
  /\ UNCHANGED << turnVars, sideVars >>
  /\ pc[w] = "unstarted"
  /\ isPolling' = [isPolling EXCEPT ![w] = TRUE]
  /\ pollTimeout' = [pollTimeout EXCEPT ![w] = Timer(INITIAL_DELAY)]
  /\ pc' = [pc EXCEPT ![w] = "waiting"]
  /\ UNCHANGED << handlerVars, finalCheck, events, emittedBy, cancelled,
                  fetchCount, finalFetches, lastOutcome >>

\* Variant: the timer repeats, as one set with setInterval would.
TimerRepeats(t) == t

\* A timer set with setTimeout has fired: it is pending no longer.
TimerFired(t) == [t EXCEPT !.pending = FALSE]

\* The timer of pollTimeout fires: pollOnce runs up to `await this.getCall`.
PollOnceStart(w) ==
  /\ UNCHANGED << turnVars, sideVars >>
  /\ pc[w] = "waiting"
  /\ pollTimeout[w].pending
  /\ fetchCount[w] < MaxFetches
  /\ pollTimeout' = [pollTimeout EXCEPT ![w] = TimerFired(@)]
  /\ IF isPolling[w]
       THEN /\ pc' = [pc EXCEPT ![w] = "fetching"]
            /\ fetchCount' = [fetchCount EXCEPT ![w] = @ + 1]
       ELSE UNCHANGED << pc, fetchCount >>
  /\ UNCHANGED << handlerVars, isPolling, finalCheck, events, emittedBy,
                  cancelled, finalFetches, lastOutcome >>

\* Variant: a success resets the counter but leaves the delay backed off.
DelayKeptAfterSuccess(n, d) == d

\* if (consecutiveErrors > 0) { consecutiveErrors = 0; pollDelay = 5000 }
ErrorsAfterSuccess(n) == IF n > 0 THEN 0 ELSE n
DelayAfterSuccess(n, d) == IF n > 0 THEN BASE_POLL_DELAY ELSE d

\* Variant: a status is reported on every fetch, changed or not.
StatusChangedAlways(call, last) == call.status # ""

\* call.status && call.status !== lastCallStatus
StatusChanged(call, last) == call.status # "" /\ call.status # last

\* Variant: the terminal block runs whatever the flag says.
ShouldProcessIgnoringFlag(call, processed) == IsTerminal(call)

\* (call.status === 'ended' || call.endedAt) && !transcriptProcessed
ShouldProcess(call, processed) == IsTerminal(call) /\ ~processed

\* Variant: the next tick scheduled without looking at isPolling.
NextTimeoutUnguarded(w, d) == Timer(d)

\* if (isPolling) pollTimeout = setTimeout(pollOnce, pollDelay)
NextTimeout(w, d) == IF isPolling[w] THEN Timer(d) ELSE pollTimeout[w]

\* pollOnce after getCall resolved with `call`: the rest of the try block.
PollOnceOk(w, call) ==
  /\ UNCHANGED << turnVars, sideVars >>
  /\ pc[w] = "fetching"
  /\ pc' = [pc EXCEPT ![w] = "waiting"]
  /\ lastOutcome' = [lastOutcome EXCEPT ![w] = Resolved(call, FALSE)]
  /\ consecutiveErrors' = ErrorsAfterSuccess(consecutiveErrors)
  /\ pollDelay' = DelayAfterSuccess(consecutiveErrors, pollDelay)
  /\ lastCallStatus' =
       IF StatusChanged(call, lastCallStatus) THEN call.status ELSE lastCallStatus
  /\ LET statusEvents ==
           IF StatusChanged(call, lastCallStatus)
             THEN << StatusEvent(call.status) >> ELSE <<>>
     IN IF ShouldProcess(call, transcriptProcessed)
          THEN /\ transcriptProcessed' = TRUE
               /\ isPolling' = [isPolling EXCEPT ![w] = FALSE]
               /\ Emit(w, statusEvents \o TerminalEvents(call))
               /\ UNCHANGED pollTimeout
          ELSE /\ Emit(w, statusEvents)
               /\ pollTimeout' = [pollTimeout EXCEPT ![w] = NextTimeout(w, pollDelay')]
               /\ UNCHANGED << transcriptProcessed, isPolling >>
  /\ UNCHANGED << finalCheck, cancelled, fetchCount, finalFetches >>

\* isRateLimit || (isCorsError && consecutiveErrors > 1), after the increment
BackoffApplies(err, n) == err.rateLimit \/ (err.cors /\ n > 1)

\* Variant: the doubled delay is not capped.
BackoffDelayUncapped(d) == d * 2

\* Variant: the delay grows by the base delay instead of doubling.
BackoffDelayLinear(d) == Min(d + BASE_POLL_DELAY, MAX_POLL_DELAY)

\* Math.min(pollDelay * 2, MAX_POLL_DELAY)
BackoffDelay(d) == Min(d * 2, MAX_POLL_DELAY)

\* The events the catch block emits: 'monitoring' at the third backed-off error.
CatchEvents(err, n) ==
  IF BackoffApplies(err, n) /\ n = 3 THEN << StatusEvent("monitoring") >> ELSE <<>>

\* Variant: the threshold compared with > instead of >=.
TooManyErrorsStrict(n) == n > MAX_CONSECUTIVE_ERRORS

\* Variant: the loop gives up one failure early.
TooManyErrorsEarly(n) == n >= MAX_CONSECUTIVE_ERRORS - 1

\* consecutiveErrors >= MAX_CONSECUTIVE_ERRORS
TooManyErrors(n) == n >= MAX_CONSECUTIVE_ERRORS

\* pollOnce after getCall rejected with `err`: the catch block.
PollOnceError(w, err) ==
  /\ UNCHANGED << turnVars, sideVars >>
  /\ pc[w] = "fetching"
  /\ pc' = [pc EXCEPT ![w] = "waiting"]
  /\ lastOutcome' = [lastOutcome EXCEPT ![w] = Rejected(err, FALSE)]
  /\ consecutiveErrors' = consecutiveErrors + 1
  /\ pollDelay' = IF BackoffApplies(err, consecutiveErrors')
                    THEN BackoffDelay(pollDelay) ELSE pollDelay
  /\ Emit(w, CatchEvents(err, consecutiveErrors'))
  /\ IF TooManyErrors(consecutiveErrors')
       THEN /\ isPolling' = [isPolling EXCEPT ![w] = FALSE]
            /\ finalCheck' = [finalCheck EXCEPT ![w] = "timer"]
            /\ UNCHANGED pollTimeout
       ELSE /\ pollTimeout' = [pollTimeout EXCEPT ![w] = NextTimeout(w, pollDelay')]
            /\ UNCHANGED << isPolling, finalCheck >>
  /\ UNCHANGED << lastCallStatus, transcriptProcessed, cancelled, fetchCount,
                  finalFetches >>

\* The 30 s timer of the final check fires: its callback awaits getCall.
FinalCheckStart(w) ==
  /\ UNCHANGED << turnVars, sideVars >>
  /\ finalCheck[w] = "timer"
  /\ finalCheck' = [finalCheck EXCEPT ![w] = "fetching"]
  /\ finalFetches' = [finalFetches EXCEPT ![w] = @ + 1]
  /\ UNCHANGED << handlerVars, isPolling, pollTimeout, pc, events, emittedBy,
                  cancelled, fetchCount, lastOutcome >>

\* The final check after getCall resolved: the body of its `if` is empty.
FinalCheckOk(w, call) ==
  /\ UNCHANGED << turnVars, sideVars >>
  /\ finalCheck[w] = "fetching"
  /\ finalCheck' = [finalCheck EXCEPT ![w] = "done"]
  /\ lastOutcome' = [lastOutcome EXCEPT ![w] = Resolved(call, TRUE)]
  /\ UNCHANGED << handlerVars, isPolling, pollTimeout, pc, events, emittedBy,
                  cancelled, fetchCount, finalFetches >>

\* The final check after getCall rejected: the error is logged.
FinalCheckError(w, err) ==
  /\ UNCHANGED << turnVars, sideVars >>
  /\ finalCheck[w] = "fetching"
  /\ finalCheck' = [finalCheck EXCEPT ![w] = "done"]
  /\ lastOutcome' = [lastOutcome EXCEPT ![w] = Rejected(err, TRUE)]
  /\ UNCHANGED << handlerVars, isPolling, pollTimeout, pc, events, emittedBy,
                  cancelled, fetchCount, finalFetches >>

\* clearTimeout(pollTimeout)
ClearTimeout(t) == [t EXCEPT !.pending = FALSE]

\* The cleanup function: isPolling = false; clearTimeout(pollTimeout).
Cancel(w) ==
  /\ UNCHANGED << turnVars, sideVars >>
  /\ pc[w] # "unstarted"
  /\ cancelled[w] < MaxCancels
  /\ cancelled' = [cancelled EXCEPT ![w] = @ + 1]
  /\ isPolling' = [isPolling EXCEPT ![w] = FALSE]
  /\ pollTimeout' = [pollTimeout EXCEPT ![w] = ClearTimeout(@)]
  /\ UNCHANGED << handlerVars, pc, finalCheck, events, emittedBy, fetchCount,
                  finalFetches, lastOutcome >>

\* ------------------------------------------------------------ specification
Step(w) ==
  \/ Watch(w)
  \/ PollOnceStart(w)
  \/ \E call \in Calls : PollOnceOk(w, call)
  \/ \E err \in Errors : PollOnceError(w, err)
  \/ FinalCheckStart(w)
  \/ \E call \in Calls : FinalCheckOk(w, call)
  \/ \E err \in Errors : FinalCheckError(w, err)
  \/ Cancel(w)

\* One watch of one call on a fresh handler.
Next == \E w \in SingleWatch : Step(w)

Spec == Init /\ [][Next]_vars

\* The outcomes getCall has in SpecTwo: calls without transcript or summary,
\* and a rate-limit or an unclassified error.
CallsTwo == {c \in Calls : c.transcript = T_EMPTY /\ c.summary = ""}
ErrorsTwo == {e \in Errors : ~e.cors}

\* pollOnce of either watch starts a fetch while the model's budget lasts.
PollOnceStartTwo(w) ==
  /\ fetchCount[1] + fetchCount[2] < MaxFetchesTwo
  /\ PollOnceStart(w)

StepTwo(w) ==
  \/ Watch(w)
  \/ PollOnceStartTwo(w)
  \/ \E call \in CallsTwo : PollOnceOk(w, call)
  \/ \E err \in ErrorsTwo : PollOnceError(w, err)
  \/ FinalCheckStart(w)
  \/ \E call \in CallsTwo : FinalCheckOk(w, call)
  \/ \E err \in ErrorsTwo : FinalCheckError(w, err)

\* Two calls watched through the same handler, one after the other or
\* interleaved; neither cancellation handle is invoked.
NextTwo == \E w \in AllWatches : StepTwo(w)

SpecTwo == Init /\ [][NextTwo]_vars

\* A pending final-check timer fires, and the fetch it starts settles.
FinalCheckSettles(w) ==
  \/ \E call \in Calls : FinalCheckOk(w, call)
  \/ \E err \in Errors : FinalCheckError(w, err)

FairSpec ==
  /\ Spec
  /\ \A w \in SingleWatch :
       WF_vars(FinalCheckStart(w)) /\ WF_vars(FinalCheckSettles(w))

\* ------------------------------------------------------------------ claims
EndedAt == {i \in 1..Len(events) : events[i].type = "call-ended"}

\* The regular fetch of watch w completes in this step.
TickCompletes(w) == pc[w] = "fetching" /\ pc'[w] = "waiting"

\* C1: for one watch on a fresh handler, call-ended is passed to onEvent at
\* most once, only by a tick whose fetched call has status 'ended' or an
\* endedAt, and it is the last event passed to onEvent.
C1_CallEndedOnceAndLast ==
  /\ Cardinality(EndedAt) <= 1
  /\ \A i \in EndedAt :
       /\ i = Len(events)
       /\ events[i].data.status = "ended" \/ events[i].data.endedAt
       /\ lastOutcome[emittedBy[i]] = Resolved(events[i].data, FALSE)

C1_Witness ==
  /\ EndedAt # {}
  /\ fetchCount[1] >= 3
  /\ cancelled[1] >= 1
  /\ events[Len(events)].data.summary # ""

\* C2: when the final check after MAX_CONSECUTIVE_ERRORS failures fetches a
\* terminal call, it emits the terminal events, ending with call-ended for
\* that call.
C2_FinalCheckEmitsCallEnded ==
  \A w \in SingleWatch :
    (finalCheck[w] = "done" /\ lastOutcome[w].kind = "ok"
       /\ IsTerminal(lastOutcome[w].call))
    => /\ Cardinality(EndedAt) = 1
       /\ events[Len(events)] = CallEndedEvent(lastOutcome[w].call)

\* C3: once the cancellation handle of a watch has been invoked, onEvent is
\* not called again for that watch, also when a fetch was in flight.
C3_NoEventAfterCancel ==
  [][\A w \in SingleWatch : cancelled[w] >= 1 => events' = events]_vars

\* C4: after the cancellation handle is invoked, no timer of the watch is
\* pending and no fetch is in flight or started later.
C4_NothingPendingAfterCancel ==
  \A w \in SingleWatch :
    cancelled[w] >= 1 =>
      /\ ~pollTimeout[w].pending
      /\ finalCheck[w] \notin {"timer", "fetching"}

\* C5: a second invocation of the cancellation handle, in any state of the
\* watch, changes nothing of the watch or the handler and emits nothing.
C5_SecondCancelIsNoOp ==
  [][\A w \in SingleWatch :
       (cancelled[w] >= 1 /\ cancelled'[w] = cancelled[w] + 1)
       => UNCHANGED << handlerVars, isPolling, pollTimeout, pc, finalCheck,
                       events, emittedBy >>]_vars

C5_Witness ==
  /\ cancelled[1] >= 2
  /\ EndedAt # {}

\* The events this step passed to onEvent.
NewEvents == SubSeq(events', Len(events) + 1, Len(events'))

OnlyTranscripts(es, from, to) ==
  \A i \in from..to : es[i].type = "transcript"

\* C6 (as claimed): with fewer than 5 consecutive failures every failed fetch
\* is followed by a scheduled tick, and a terminal fetch leaves the event
\* sequence ending with a call-status for the terminal status, transcript
\* events only, and exactly one call-ended.
C6_StatusThenCallEnded ==
  \A w \in SingleWatch :
    (cancelled[w] = 0 /\ lastOutcome[w].kind = "ok" /\ ~lastOutcome[w].final
       /\ IsTerminal(lastOutcome[w].call) /\ lastOutcome[w].call.status # "")
    => /\ Cardinality(EndedAt) = 1
       /\ events[Len(events)].type = "call-ended"
       /\ \E i \in 1..Len(events) :
            /\ events[i] = StatusEvent(lastOutcome[w].call.status)
            /\ OnlyTranscripts(events, i + 1, Len(events) - 1)

\* C6 (amended): on a watch that was not cancelled, every failed fetch below
\* the threshold schedules the next tick with the current delay; the tick
\* that fetches a terminal call emits, in that one tick, a call-status for
\* the fetched status exactly when that status is non-empty and differs from
\* the last-seen one, then transcript events only, then the only call-ended.
C6_TerminalTick ==
  [][\A w \in SingleWatch :
       TickCompletes(w) =>
         /\ (lastOutcome'[w].kind = "error" /\ cancelled[w] = 0
               /\ consecutiveErrors' < 5)
            => pollTimeout'[w] = Timer(pollDelay')
         /\ (lastOutcome'[w].kind = "ok"
               /\ (lastOutcome'[w].call.status = "ended" \/ lastOutcome'[w].call.endedAt))
            => LET call == lastOutcome'[w].call
                   changed == call.status # "" /\ call.status # lastCallStatus
                   first == IF changed THEN 2 ELSE 1
               IN /\ Cardinality(EndedAt') = 1
                  /\ NewEvents[Len(NewEvents)] = CallEndedEvent(call)
                  /\ changed => NewEvents[1] = StatusEvent(call.status)
                  /\ OnlyTranscripts(NewEvents, first, Len(NewEvents) - 1)
                  /\ ~pollTimeout'[w].pending]_vars

C6_Witness ==
  /\ EndedAt # {}
  /\ cancelled[1] = 0
  /\ \E i \in 1..Len(events) : events[i].status = "monitoring"
  /\ \E i \in 1..Len(events) : events[i] = StatusEvent("ended")
  /\ \E i \in 1..Len(events) : events[i].role = "assistant"

\* C7: when the consecutive-error counter reaches MAX_CONSECUTIVE_ERRORS the
\* watch schedules no further regular tick, starts exactly one more fetch
\* (the final check), and never fetches again once that fetch has settled.
C7_OneFinalCheck ==
  /\ [][\A w \in SingleWatch :
          /\ (TickCompletes(w) /\ consecutiveErrors' >= 5)
             => /\ finalCheck[w] = "none" /\ finalCheck'[w] = "timer"
                /\ ~pollTimeout'[w].pending
          /\ finalCheck[w] # "none"
             => /\ fetchCount'[w] = fetchCount[w]
                /\ pc'[w] = "waiting" /\ ~pollTimeout'[w].pending
                /\ finalFetches'[w] <= 1
          /\ finalCheck[w] = "done"
             => finalCheck'[w] = "done" /\ finalFetches'[w] = 1]_vars
  /\ \A w \in SingleWatch :
       (finalCheck[w] = "timer") ~> (finalCheck[w] = "done" /\ finalFetches[w] = 1)

C7_Witness ==
  /\ finalCheck[1] = "done"
  /\ finalFetches[1] = 1
  /\ consecutiveErrors = 5

\* C8 (as claimed): every failed fetch of a tick increments the counter by
\* one and doubles the delay up to MAX_POLL_DELAY, whatever the failure.
C8_BackoffOnEveryFailure ==
  [][\A w \in SingleWatch :
       (TickCompletes(w) /\ lastOutcome'[w].kind = "error")
       => /\ consecutiveErrors' = consecutiveErrors + 1
          /\ pollDelay' = Min(2 * pollDelay, 30000)]_vars

\* C8 (amended): every failed fetch of a tick increments the counter by one;
\* the delay becomes min(2 x delay, 30000) when the failure is a rate limit,
\* or a CORS / 'Failed to fetch' error that is not the first consecutive
\* failure, and is left as it is for every other failure.
C8_BackoffOnRateLimit ==
  [][\A w \in SingleWatch :
       (TickCompletes(w) /\ lastOutcome'[w].kind = "error")
       => LET err == lastOutcome'[w].error
          IN /\ consecutiveErrors' = consecutiveErrors + 1
             /\ pollDelay' =
                  IF err.rateLimit \/ (err.cors /\ consecutiveErrors >= 1)
                    THEN Min(2 * pollDelay, 30000) ELSE pollDelay]_vars

C8_Witness ==
  /\ lastOutcome[1].kind = "error"
  /\ pollDelay = 30000
  /\ consecutiveErrors = 4
  /\ pollTimeout[1] = Timer(30000)

C10_ErrorEventAtThreshold ==
  \A w \in SingleWatch :
    (finalCheck[w] # "none") <=> (\E i \in 1..Len(events) : events[i].type = "error")

\* The call-status events of watch w that carry a provider status.
ProviderStatusEvents(w) ==
  LET idx == {i \in 1..Len(events) :
                /\ emittedBy[i] = w
                /\ events[i].type = "call-status"
                /\ events[i].status # "monitoring"}
  IN [i \in idx |-> events[i].status]

\* No two successive entries of f (a function on a set of indices) are equal.
NoRepeat(f) ==
  \A i, j \in DOMAIN f :
    (i < j /\ \A k \in DOMAIN f : ~(i < k /\ k < j)) => f[i] # f[j]

CallStatusCount(es) ==
  Cardinality({i \in 1..Len(es) : es[i].type = "call-status"})

Utterance(speaker, role, content) ==
  Event("transcript", "", role, speaker, content, NoCall)

ExpectedLines(t) ==
  IF t = T_MIXED
    THEN << Utterance("Other Party", "user", <<"h", "i">>),
            Utterance("VOX", "assistant", <<"o", "k">>),
            Utterance("Other Party", "user", <<"n", "o">>) >>
    ELSE <<>>

\* C13: the terminal tick emits, within that tick and in this order, the
\* call-status change (only if the status changed), one transcript event per
\* kept fragment in raw-transcript order, one system-role summary event if
\* and only if a summary is present, then call-ended carrying the fetched call.
C13_TerminalTickOrder ==
  [][\A w \in SingleWatch :
       (TickCompletes(w) /\ lastOutcome'[w].kind = "ok"
          /\ (lastOutcome'[w].call.status = "ended" \/ lastOutcome'[w].call.endedAt))
       => LET call == lastOutcome'[w].call
              changed == call.status # "" /\ call.status # lastCallStatus
          IN NewEvents =
               (IF changed
                  THEN << Event("call-status", call.status, "", "", <<>>, NoCall) >>
                  ELSE <<>>)
               \o ExpectedLines(call.transcript)
               \o (IF call.summary # ""
                     THEN << Utterance("System", "system",
                                       <<"Call Summary: ", call.summary>>) >>
                     ELSE <<>>)
               \o << Event("call-ended", "", "", "", <<>>, call) >>]_vars

C13_Witness ==
  /\ Len(events) >= 7
  /\ events[Len(events)].type = "call-ended"
  /\ events[Len(events)].data.transcript = T_MIXED
  /\ events[Len(events) - 1].role = "system"
  /\ events[Len(events) - 2].content = <<"n", "o">>
  /\ events[Len(events) - 5] = StatusEvent("ended")

\* C12: each watch has its own last-seen status, terminal-processed flag,
\* error counter and delay: every watch whose tick fetched a terminal call
\* has emitted its own call-ended event.
C12_EachWatchGetsCallEnded ==
  \A w \in AllWatches :
    (lastOutcome[w].kind = "ok" /\ ~lastOutcome[w].final
       /\ IsTerminal(lastOutcome[w].call))
    => \E i \in EndedAt : emittedBy[i] = w /\ events[i].data = lastOutcome[w].call

\* ----------------------------------------------------------- action executor
\* args.action: the five kinds of TakeActionArgs and one the type does not
\* list, as a decision parsed from the model's output may carry.
ActionKinds == {"dtmf", "speak", "wait", "end", "transfer", "hold"}

\* TakeActionArgs['digit']
Digits == {"0", "1", "2", "3", "4", "5", "6", "7", "8", "9", "*", "#"}

\* args.digit, args.say and customerNumber; "" stands for an absent value.
DigitArgs == Digits \cup {""}
SayArgs == {"", "hello"}
CustomerNumbers == {"", "+15550100"}

Decisions == [action : ActionKinds, digit : DigitArgs, say : SayArgs]

\* One invocation of a callback of ExecutorCallbacks.
Invocation(name, arg) == [name |-> name, arg |-> arg]

\* Variant: a digit that is falsy as a number counts as missing.
DigitMissingZero(args) == args.digit = "" \/ args.digit = "0"

\* Variant: the digit is not checked.
DigitMissingNever(args) == FALSE

\* !args.digit
DigitMissing(args) == args.digit = ""

\* !customerNumber
CustomerMissing(customerNumber) == customerNumber = ""

\* Variant: case 'dtmf' falls through into case 'end'.
CallbacksFallThrough(args, customerNumber) ==
  IF args.action = "dtmf" /\ ~DigitMissing(args)
    THEN << Invocation("sendDtmf", args.digit), Invocation("endCall", "") >>
  ELSE IF args.action = "end" THEN << Invocation("endCall", "") >>
  ELSE IF args.action = "transfer" /\ ~CustomerMissing(customerNumber)
    THEN << Invocation("transfer", customerNumber) >>
  ELSE <<>>

\* The callback the switch awaits for a decision, if any.
Callbacks(args, customerNumber) ==
  IF args.action = "dtmf" /\ ~DigitMissing(args)
    THEN << Invocation("sendDtmf", args.digit) >>
  ELSE IF args.action = "end" THEN << Invocation("endCall", "") >>
  ELSE IF args.action = "transfer" /\ ~CustomerMissing(customerNumber)
    THEN << Invocation("transfer", customerNumber) >>
  ELSE <<>>

\* Variant: the default case reports the kind it was given and no execution.
ReturnedUnknownUnexecuted(args, customerNumber) ==
  IF args.action = "dtmf"
    THEN IF DigitMissing(args)
           THEN Result(FALSE, "dtmf", <<"missing digit">>)
           ELSE Result(TRUE, "dtmf", <<"pressed ", args.digit>>)
  ELSE IF args.action = "end" THEN Result(TRUE, "end", <<"call ended">>)
  ELSE IF args.action = "transfer"
    THEN IF CustomerMissing(customerNumber)
           THEN Result(FALSE, "transfer", <<"no customer number">>)
           ELSE Result(TRUE, "transfer", <<"transferring to ", customerNumber>>)
  ELSE IF args.action = "speak" THEN Result(TRUE, "speak", <<args.say>>)
  ELSE IF args.action = "wait" THEN Result(TRUE, "wait", <<"waiting">>)
  ELSE Result(FALSE, args.action, <<"waiting">>)

\* Variant: 'speak', which invokes no callback, reports no execution.
ReturnedSpeakUnexecuted(args, customerNumber) ==
  IF args.action = "dtmf"
    THEN IF DigitMissing(args)
           THEN Result(FALSE, "dtmf", <<"missing digit">>)
           ELSE Result(TRUE, "dtmf", <<"pressed ", args.digit>>)
  ELSE IF args.action = "end" THEN Result(TRUE, "end", <<"call ended">>)
  ELSE IF args.action = "transfer"
    THEN IF CustomerMissing(customerNumber)
           THEN Result(FALSE, "transfer", <<"no customer number">>)
           ELSE Result(TRUE, "transfer", <<"transferring to ", customerNumber>>)
  ELSE IF args.action = "speak" THEN Result(FALSE, "speak", <<args.say>>)
  ELSE Result(TRUE, "wait", <<"waiting">>)

\* The ExecutionResult the switch returns for a decision.
Returned(args, customerNumber) ==
  IF args.action = "dtmf"
    THEN IF DigitMissing(args)
           THEN Result(FALSE, "dtmf", <<"missing digit">>)
           ELSE Result(TRUE, "dtmf", <<"pressed ", args.digit>>)
  ELSE IF args.action = "end" THEN Result(TRUE, "end", <<"call ended">>)
  ELSE IF args.action = "transfer"
    THEN IF CustomerMissing(customerNumber)
           THEN Result(FALSE, "transfer", <<"no customer number">>)
           ELSE Result(TRUE, "transfer", <<"transferring to ", customerNumber>>)
  ELSE IF args.action = "speak" THEN Result(TRUE, "speak", <<args.say>>)
  ELSE Result(TRUE, "wait", <<"waiting">>)

\* executeAction(args, callbacks, customerNumber) up to its await, or to its
\* return when the decision has no callback to await.
ExecuteAction(args, customerNumber) ==
  /\ exPc = "idle"
  /\ exArgs' = args
  /\ exCustomer' = customerNumber
  /\ exCalls' = Callbacks(args, customerNumber)
  /\ IF Callbacks(args, customerNumber) # <<>>
       THEN exPc' = "awaiting" /\ exResult' = NoResult
       ELSE exPc' = "returned" /\ exResult' = Returned(args, customerNumber)
  /\ UNCHANGED << pollVars, sideVars,
                  detectorVars >>

\* The awaited callback completes: executeAction returns its result.
CallbackResolves ==
  /\ exPc = "awaiting"
  /\ exPc' = "returned"
  /\ exResult' = Returned(exArgs, exCustomer)
  /\ UNCHANGED << pollVars, sideVars,
                  exArgs, exCustomer, exCalls, detectorVars >>

\* The awaited callback fails with a provider error: nothing catches it, so
\* the promise of executeAction rejects.
CallbackRejects ==
  /\ exPc = "awaiting"
  /\ exPc' = "thrown"
  /\ UNCHANGED << pollVars, sideVars,
                  exArgs, exCustomer, exCalls, exResult, detectorVars >>

NextExec ==
  \/ \E args \in Decisions, customerNumber \in CustomerNumbers :
       ExecuteAction(args, customerNumber)
  \/ CallbackResolves
  \/ CallbackRejects

\* One call of executeAction, for every decision and customerNumber.
SpecExec == Init /\ [][NextExec]_vars

\* executeAction has been called (and may still await its callback).
Called == exPc # "idle"

\* C14: for action 'dtmf' with a digit of {0-9,*,#} executeAction invokes
\* sendDtmf exactly once with that digit, no other callback, and the result
\* it returns has executed:true.
C14_DtmfPressesDigit ==
  (Called /\ exArgs.action = "dtmf" /\ exArgs.digit \in Digits)
  => /\ exCalls = << [name |-> "sendDtmf", arg |-> exArgs.digit] >>
     /\ exPc = "returned"
        => exResult = [executed |-> TRUE, action |-> "dtmf",
                       details |-> <<"pressed ", exArgs.digit>>]

C14_Witness ==
  /\ exPc = "returned"
  /\ exArgs.action = "dtmf"
  /\ exArgs.digit = "0"
  /\ exResult.executed
  /\ exCalls = << [name |-> "sendDtmf", arg |-> "0"] >>

\* C15: 'dtmf' without a digit returns executed:false with detail 'missing
\* digit', 'transfer' without a customerNumber returns executed:false with
\* detail 'no customer number'; neither invokes any callback nor raises.
C15_MalformedIsReported ==
  /\ (Called /\ exArgs.action = "dtmf" /\ exArgs.digit = "")
     => /\ exPc = "returned"
        /\ exCalls = <<>>
        /\ exResult = [executed |-> FALSE, action |-> "dtmf",
                       details |-> <<"missing digit">>]
  /\ (Called /\ exArgs.action = "transfer" /\ exCustomer = "")
     => /\ exPc = "returned"
        /\ exCalls = <<>>
        /\ exResult = [executed |-> FALSE, action |-> "transfer",
                       details |-> <<"no customer number">>]

C15_Witness ==
  /\ exPc = "returned"
  /\ exArgs.action = "transfer"
  /\ exCustomer = ""
  /\ exArgs.digit = "5"
  /\ ~exResult.executed

\* C16: for every decision and every outcome of the callback it invokes,
\* executeAction completes by returning an ExecutionResult, never by raising.
C16_NeverRaises == exPc # "thrown"

\* C17: one executeAction call invokes at most one callback, the one of the
\* decision's kind: 'end' invokes endCall once, 'transfer' with a
\* customerNumber invokes transfer once with that number.
C17_AtMostOneEffect ==
  Called =>
    /\ Len(exCalls) <= 1
    /\ exArgs.action = "end" => exCalls = << [name |-> "endCall", arg |-> ""] >>
    /\ (exArgs.action = "transfer" /\ exCustomer # "")
       => exCalls = << [name |-> "transfer", arg |-> exCustomer] >>
    /\ \A i \in 1..Len(exCalls) :
         \/ exCalls[i].name = "sendDtmf" /\ exArgs.action = "dtmf"
         \/ exCalls[i].name = "endCall" /\ exArgs.action = "end"
         \/ exCalls[i].name = "transfer" /\ exArgs.action = "transfer"

C17_Witness ==
  /\ exPc = "returned"
  /\ exArgs.action = "transfer"
  /\ exArgs.digit = "7"
  /\ exCalls = << [name |-> "transfer", arg |-> "+15550100"] >>

\* C18: 'speak', 'wait' and an unrecognized kind invoke no callback, and an
\* unrecognized kind returns what 'wait' returns.
C18_NoEffectKinds ==
  (Called /\ exArgs.action \notin {"dtmf", "end", "transfer"})
  => /\ exCalls = <<>>
     /\ exPc = "returned"
     /\ exArgs.action # "speak"
        => exResult = [executed |-> TRUE, action |-> "wait",
                       details |-> <<"waiting">>]

C18_Witness ==
  /\ exPc = "returned"
  /\ exArgs.action = "hold"
  /\ exArgs.digit = "1"
  /\ exCustomer # ""
  /\ exResult.action = "wait"

\* C19 (as claimed): executed is true exactly when executeAction invoked one
\* of the callbacks.
C19_ExecutedIffCallback ==
  exPc = "returned" => (exResult.executed <=> exCalls # <<>>)

\* C19 (amended): executed is false exactly for a malformed decision ('dtmf'
\* without digit, 'transfer' without customerNumber); it is true whenever a
\* callback was invoked and completed, and also for 'speak', 'wait' and
\* unrecognized kinds, which invoke none.
C19_ExecutedUnlessMalformed ==
  exPc = "returned" =>
    /\ exResult.executed
       <=> ~ \/ exArgs.action = "dtmf" /\ exArgs.digit = ""
             \/ exArgs.action = "transfer" /\ exCustomer = ""
    /\ exCalls # <<>> => exResult.executed
    /\ exArgs.action \in {"speak", "wait", "hold"}
       => exResult.executed /\ exCalls = <<>>

C19_Witness ==
  /\ exPc = "returned"
  /\ exArgs.action = "speak"
  /\ exArgs.say = "hello"
  /\ exResult = [executed |-> TRUE, action |-> "speak", details |-> <<"hello">>]
  /\ exCalls = <<>>

\* ------------------------------------------------------- DTMF pre-detector
\* Input transcripts up to this many phrases long.
MaxPhrases == 3

UPPER == <<"A", "B", "C", "D", "E", "F", "G", "H", "I", "J", "K", "L", "M", "N", "O", "P", "Q", "R", "S", "T", "U", "V", "W", "X", "Y", "Z">>
LOWER == <<"a", "b", "c", "d", "e", "f", "g", "h", "i", "j", "k", "l", "m", "n", "o", "p", "q", "r", "s", "t", "u", "v", "w", "x", "y", "z">>
DIGITS == {"0", "1", "2", "3", "4", "5", "6", "7", "8", "9"}

\* One character of transcript.toLowerCase()
LowerChar(c) ==
  IF \E i \in 1..26 : UPPER[i] = c
    THEN LOWER[CHOOSE i \in 1..26 : UPPER[i] = c] ELSE c

\* transcript.toLowerCase()
ToLowerCase(s) == [i \in 1..Len(s) |-> LowerChar(s[i])]

\* \w and \s of the regular expressions
WORD_CHARS ==
  {UPPER[i] : i \in 1..26} \cup {LOWER[i] : i \in 1..26} \cup DIGITS \cup {"_"}
WordChar(c) == c \in WORD_CHARS
SpaceChar(c) == c = " "

\* The character at 0-based position i, "" outside the string.
CharAt(s, i) == IF i >= 0 /\ i < Len(s) THEN s[i + 1] ELSE ""

\* \b at position i: exactly one side is a word character.
WordBoundary(s, i) == WordChar(CharAt(s, i - 1)) # WordChar(CharAt(s, i))

\* A literal at position i.
LitAt(s, i, l) == i + Len(l) <= Len(s) /\ SubSeq(s, i + 1, i + Len(l)) = l

\* Where a greedy \s+, \w+ or [,\s]+ that starts at i ends (i when it
\* matches nothing); what follows each of them in the patterns cannot start
\* with one of its own characters, so backtracking never shortens it.
RECURSIVE SkipSpaces(_, _)
SkipSpaces(s, i) == IF SpaceChar(CharAt(s, i)) THEN SkipSpaces(s, i + 1) ELSE i

RECURSIVE SkipWord(_, _)
SkipWord(s, i) == IF WordChar(CharAt(s, i)) THEN SkipWord(s, i + 1) ELSE i

RECURSIVE SkipSeparators(_, _)
SkipSeparators(s, i) ==
  IF CharAt(s, i) = "," \/ SpaceChar(CharAt(s, i))
    THEN SkipSeparators(s, i + 1) ELSE i

PRESS == <<"p", "r", "e", "s", "s">>
FOR == <<"f", "o", "r">>
STAR == <<"s", "t", "a", "r">>
POUND == <<"p", "o", "u", "n", "d">>
ASTERISK == <<"a", "s", "t", "e", "r", "i", "s", "k">>
HASH == <<"h", "a", "s", "h">>

\* /\bpress\s+([0-9])\b/ matches at p
DigitMatchAt(s, p) ==
  /\ WordBoundary(s, p)
  /\ LitAt(s, p, PRESS)
  /\ SkipSpaces(s, p + 5) > p + 5
  /\ CharAt(s, SkipSpaces(s, p + 5)) \in DIGITS
  /\ WordBoundary(s, SkipSpaces(s, p + 5) + 1)

\* /\bpress\s+(star|pound|asterisk|hash)\b/ matches at p with the word w
SpecialMatchAt(s, p, w) ==
  /\ WordBoundary(s, p)
  /\ LitAt(s, p, PRESS)
  /\ SkipSpaces(s, p + 5) > p + 5
  /\ LitAt(s, SkipSpaces(s, p + 5), w)
  /\ WordBoundary(s, SkipSpaces(s, p + 5) + Len(w))

\* Where the `press` of /for\s+\w+[,\s]+press\s+([0-9*#])/i starts for a
\* match that starts at p
ForPressAt(s, p) == SkipSeparators(s, SkipWord(s, SkipSpaces(s, p + 3)))

\* /for\s+\w+[,\s]+press\s+([0-9*#])/i matches at p
ForPressMatchAt(s, p) ==
  /\ LitAt(s, p, FOR)
  /\ SkipSpaces(s, p + 3) > p + 3
  /\ SkipWord(s, SkipSpaces(s, p + 3)) > SkipSpaces(s, p + 3)
  /\ ForPressAt(s, p) > SkipWord(s, SkipSpaces(s, p + 3))
  /\ LitAt(s, ForPressAt(s, p), PRESS)
  /\ SkipSpaces(s, ForPressAt(s, p) + 5) > ForPressAt(s, p) + 5
  /\ CharAt(s, SkipSpaces(s, ForPressAt(s, p) + 5)) \in DIGITS \cup {"*", "#"}

\* String.prototype.match without the g flag: the leftmost match.
Leftmost(S) == CHOOSE p \in S : \A q \in S : p <= q

DigitMatches(s) == {p \in 0..Len(s) : DigitMatchAt(s, p)}
SpecialWords == {STAR, POUND, ASTERISK, HASH}
SpecialMatches(s) ==
  {p \in 0..Len(s) : \E w \in SpecialWords : SpecialMatchAt(s, p, w)}
ForPressMatches(s) == {p \in 0..Len(s) : ForPressMatchAt(s, p)}

Decision(heard, digit) ==
  [heard |-> heard, action |-> "dtmf", digit |-> digit, confidence |-> "high"]

\* digitMatch[1]
DigitCaptured(s) == CharAt(s, SkipSpaces(s, Leftmost(DigitMatches(s)) + 5))

\* Variant: every special word is reported as '*'.
SpecialCapturedAlwaysStar(s) ==
  LET p == Leftmost(SpecialMatches(s))
      w == CHOOSE w \in SpecialWords : SpecialMatchAt(s, p, w)
  IN IF w \in SpecialWords THEN "*" ELSE "#"

\* specialMatch[1] === 'star' || specialMatch[1] === 'asterisk' ? '*' : '#'
SpecialCaptured(s) ==
  LET p == Leftmost(SpecialMatches(s))
      w == CHOOSE w \in SpecialWords : SpecialMatchAt(s, p, w)
  IN IF w = STAR \/ w = ASTERISK THEN "*" ELSE "#"

\* Variant: the character after `press` is taken for the captured group.
ForPressCapturedSeparator(s) ==
  CharAt(s, ForPressAt(s, Leftmost(ForPressMatches(s))) + 5)

\* forPressMatch[1]
ForPressCaptured(s) ==
  CharAt(s, SkipSpaces(s, ForPressAt(s, Leftmost(ForPressMatches(s))) + 5))

\* Variant: the star/pound pattern is tried before the digit pattern.
DetectSpecialFirst(transcript) ==
  LET text == ToLowerCase(transcript)
  IN IF SpecialMatches(text) # {}
       THEN Decision("menu prompt", SpecialCaptured(text))
     ELSE IF DigitMatches(text) # {}
       THEN Decision("menu prompt", DigitCaptured(text))
     ELSE IF ForPressMatches(text) # {}
       THEN Decision("menu option", ForPressCaptured(text))
     ELSE Null

\* detectDtmfFromText(transcript)
DetectDtmfFromText(transcript) ==
  LET text == ToLowerCase(transcript)
  IN IF DigitMatches(text) # {}
       THEN Decision("menu prompt", DigitCaptured(text))
     ELSE IF SpecialMatches(text) # {}
       THEN Decision("menu prompt", SpecialCaptured(text))
     ELSE IF ForPressMatches(text) # {}
       THEN Decision("menu option", ForPressCaptured(text))
     ELSE Null

\* The phrases input transcripts are made of.
P_PRESS_3 == <<"p", "r", "e", "s", "s", " ", "3">>
P_PRESS_1 == <<"p", "r", "e", "s", "s", " ", "1">>
P_PRESS_3_UPPER == <<"P", "r", "e", "s", "s", " ", "3">>
P_PRESS_STAR == <<"p", "r", "e", "s", "s", " ", "s", "t", "a", "r">>
P_PRESS_POUND == <<"p", "r", "e", "s", "s", " ", "p", "o", "u", "n", "d">>
P_FOR_X == <<"f", "o", "r", " ", "x", ",", " ">>
P_PRESS_HASH == <<"p", "r", "e", "s", "s", " ", "#">>
P_SPACE == <<" ">>
P_EX == <<"e", "x">>
P_ZERO == <<"0">>
P_S == <<"s">>
Phrases == {P_PRESS_3, P_PRESS_1, P_PRESS_3_UPPER, P_PRESS_STAR, P_PRESS_POUND, P_FOR_X, P_PRESS_HASH, P_SPACE, P_EX, P_ZERO, P_S}

RECURSIVE Concat(_)
Concat(ps) == IF ps = <<>> THEN <<>> ELSE Head(ps) \o Concat(Tail(ps))

\* Every transcript of at most MaxPhrases phrases.
Texts ==
  {Concat(ps) : ps \in UNION {[1..n -> Phrases] : n \in 0..MaxPhrases}}

\* Before the call: any input transcript.
InitDetect ==
  /\ HandlerInit
  /\ ExecutorIdle
  /\ dtText \in Texts
  /\ dtResult = NotCalled
  /\ SideIdle

\* The turn loop calls detectDtmfFromText on the transcript.
Detect ==
  /\ dtResult = NotCalled
  /\ dtResult' = DetectDtmfFromText(dtText)
  /\ UNCHANGED << pollVars, sideVars,
                  executorVars, dtText >>

NextDetect == Detect

SpecDetect == InitDetect /\ [][NextDetect]_vars

\* s contains l as a substring.
Contains(s, l) == \E p \in 0..Len(s) : LitAt(s, p, l)

\* `press`, spaces and digit d stand as whole words at p of the lowercased s.
PressDigitWordsAt(s, p, d) ==
  /\ LitAt(s, p, <<"p", "r", "e", "s", "s", " ">>)
  /\ ~WordChar(CharAt(s, p - 1))
  /\ \E j \in (p + 6)..Len(s) :
       /\ \A k \in (p + 6)..(j - 1) : CharAt(s, k) = " "
       /\ CharAt(s, j) = d
       /\ ~WordChar(CharAt(s, j + 1))

\* C20 (as claimed): every input that contains the substring "press 3",
\* whatever surrounds it, yields action 'dtmf', digit '3', confidence 'high'.
C20_Press3Anywhere ==
  (dtResult # NotCalled /\ Contains(dtText, <<"p", "r", "e", "s", "s", " ", "3">>))
  => /\ dtResult.action = "dtmf"
     /\ dtResult.digit = "3"
     /\ dtResult.confidence = "high"

\* C20 (amended): when, case-insensitively, "press 3" stands as whole words
\* ('press' not preceded and '3' not followed by a word character) and no
\* whole-word "press <digit>" stands before it, the result is action 'dtmf',
\* digit '3', confidence 'high'.
C20_FirstWholeWordPress3 ==
  dtResult # NotCalled =>
    \A p \in 0..Len(dtText) :
      (/\ PressDigitWordsAt(ToLowerCase(dtText), p, "3")
       /\ \A q \in 0..(p - 1), d \in DIGITS :
            ~PressDigitWordsAt(ToLowerCase(dtText), q, d))
      => dtResult = [heard |-> "menu prompt", action |-> "dtmf",
                     digit |-> "3", confidence |-> "high"]

C20_Witness ==
  /\ dtText = P_PRESS_STAR \o P_SPACE \o P_PRESS_3
  /\ dtResult.digit = "3"

\* `press`, spaces and the word w stand as whole words at p of the lowercased s.
PressWordAt(s, p, w) ==
  /\ LitAt(s, p, <<"p", "r", "e", "s", "s", " ">>)
  /\ ~WordChar(CharAt(s, p - 1))
  /\ \E j \in (p + 6)..Len(s) :
       /\ \A k \in (p + 6)..(j - 1) : CharAt(s, k) = " "
       /\ LitAt(s, j, w)
       /\ ~WordChar(CharAt(s, j + Len(w)))

\* No whole-word "press <digit>" stands anywhere in the lowercased s.
NoPressDigit(s) ==
  \A q \in 0..Len(s), d \in DIGITS : ~PressDigitWordsAt(s, q, d)

\* No whole-word press star/pound/asterisk/hash stands before p.
NoPressWordBefore(s, p) ==
  \A q \in 0..(p - 1), w \in SpecialWords : ~PressWordAt(s, q, w)

\* C21 (as claimed): every input that contains "press star" yields digit '*'
\* and every input that contains "press pound" yields digit '#', whatever
\* other prompts it contains.
C21_PressStarPoundAnywhere ==
  dtResult # NotCalled =>
    /\ Contains(dtText, P_PRESS_STAR) => dtResult.digit = "*"
    /\ Contains(dtText, P_PRESS_POUND) => dtResult.digit = "#"

\* C21 (amended): when, case-insensitively, "press star" ("press pound")
\* stands as whole words, no whole-word "press <digit>" stands anywhere in the
\* text and no whole-word press star/pound/asterisk/hash stands before it, the
\* result is action 'dtmf', digit '*' ('#'), confidence 'high'.
C21_FirstWholeWordStarPound ==
  LET text == ToLowerCase(dtText)
  IN (dtResult # NotCalled /\ NoPressDigit(text)) =>
    \A p \in 0..Len(text) :
      NoPressWordBefore(text, p)
      => /\ PressWordAt(text, p, STAR)
              => dtResult = [heard |-> "menu prompt", action |-> "dtmf",
                             digit |-> "*", confidence |-> "high"]
         /\ PressWordAt(text, p, POUND)
              => dtResult = [heard |-> "menu prompt", action |-> "dtmf",
                             digit |-> "#", confidence |-> "high"]

C21_Witness ==
  /\ dtText = P_PRESS_POUND \o P_SPACE \o P_PRESS_STAR
  /\ dtResult.digit = "#"

\* ------------------------------------------------- transcript parse, alone
\* Raw transcripts up to this many fragments long.
MaxFragments == 3

\* What a fragment says after its optional prefix.
B_EMPTY == <<>>
B_BLANK == <<" ">>
B_PLACEHOLDER ==
  <<" ", "A", "u", "d", "i", "o", " ", "d", "e", "t", "e", "c", "t", "e",
     "d", " ">>
B_TIME == <<"a", "t", " ", "5", ":", "0", "0", " ">>
B_HELLO == <<"H", "e", "l", "l", "o", "?", " ">>
B_HI_THERE == <<" ", "H", "i", " ", "t", "h", "e", "r", "e", ".", " ">>
B_NEED_HELP ==
  <<" ", "I", " ", "n", "e", "e", "d", " ", "h", "e", "l", "p", ".">>
Bodies == {B_EMPTY, B_BLANK, B_PLACEHOLDER, B_TIME, B_HELLO, B_HI_THERE, B_NEED_HELP}

\* A fragment: an optional 'AI:' or 'User:' followed by what was said.
Fragment(prefix, body) == [prefix |-> prefix, body |-> body]

\* The first fragment may have no prefix; every later one begins at a prefix.
FirstFragments ==
  {Fragment(p, b) : p \in {<<>>, AI_PREFIX, USER_PREFIX}, b \in Bodies}
LaterFragments == {Fragment(p, b) : p \in {AI_PREFIX, USER_PREFIX}, b \in Bodies}

FragmentLists ==
  {<<>>} \cup
  UNION {{<<f>> \o fs : f \in FirstFragments, fs \in [1..n -> LaterFragments]} :
           n \in 0..(MaxFragments - 1)}

\* call.transcript: the fragments one after the other.
RECURSIVE Render(_)
Render(fs) ==
  IF fs = <<>> THEN <<>> ELSE Head(fs).prefix \o Head(fs).body \o Render(Tail(fs))

\* Before terminal detection: any raw transcript.
InitParse ==
  /\ HandlerInit
  /\ ExecutorIdle
  /\ DetectorIdle
  /\ psFragments \in FragmentLists
  /\ psEvents = <<>>
  /\ psDone = FALSE
  /\ ConsumerIdle
  /\ LaterIdle

\* The terminal block processes the full transcript.
Parse ==
  /\ ~psDone
  /\ psDone' = TRUE
  /\ psEvents' = TranscriptEvents([NoCall EXCEPT !.transcript = Render(psFragments)])
  /\ UNCHANGED << pollVars, turnVars, psFragments, consumerVars, laterVars >>

NextParse == Parse

SpecParse == InitParse /\ [][NextParse]_vars

\* The events a list of fragments should give: one per fragment that says
\* something other than the placeholder, attributed by its prefix.
RECURSIVE ExpectedEvents(_)
ExpectedEvents(fs) ==
  IF fs = <<>> THEN <<>>
  ELSE (IF Trim(Head(fs).body) # <<>> /\ Trim(Head(fs).body) # AUDIO_DETECTED
          THEN << IF Head(fs).prefix = AI_PREFIX
                    THEN Utterance("VOX", "assistant", Trim(Head(fs).body))
                    ELSE Utterance("Other Party", "user", Trim(Head(fs).body)) >>
          ELSE <<>>)
       \o ExpectedEvents(Tail(fs))

SCENARIO_1 ==
  <<"H", "e", "l", "l", "o", "?", " ", "A", "I", ":", " ", "H", "i", " ",
     "t", "h", "e", "r", "e", ".", " ", "U", "s", "e", "r", ":", " ", "I",
     " ", "n", "e", "e", "d", " ", "h", "e", "l", "p", ".">>

\* C22: the transcript events emitted for a raw transcript are, in the
\* original order, exactly one per fragment whose content is non-empty and is
\* not 'Audio detected'; 'AI:' fragments are the agent's (VOX, assistant),
\* 'User:' and unprefixed ones the other party's (user), prefix stripped;
\* "Hello? AI: Hi there. User: I need help." gives the three expected lines.
C22_ParseKeepsEveryFragment ==
  psDone =>
    /\ psEvents = ExpectedEvents(psFragments)
    /\ Render(psFragments) = SCENARIO_1 =>
         psEvents =
           << Utterance("Other Party", "user", <<"H", "e", "l", "l", "o", "?">>),
              Utterance("VOX", "assistant",
                        <<"H", "i", " ", "t", "h", "e", "r", "e", ".">>),
              Utterance("Other Party", "user",
                        <<"I", " ", "n", "e", "e", "d", " ", "h", "e", "l", "p", ".">>) >>

C22_Witness ==
  /\ psDone
  /\ psFragments = << Fragment(<<>>, B_HELLO), Fragment(AI_PREFIX, B_HI_THERE),
                      Fragment(USER_PREFIX, B_NEED_HELP) >>
  /\ Render(psFragments) = SCENARIO_1
  /\ Len(psEvents) = 3

\* --------------------------------------------- Dashboard: event normalizer
\* Streams up to this many entries long.
MaxStream == 2

\* The value of a property that is absent.
UNDEFINED == "<undefined>"

\* a || b
Or(a, b) == IF a # UNDEFINED /\ a # "" THEN a ELSE b

\* vapiEvent.data: absent, or a bag with the fields the normalizer reads.
NoEventData ==
  [present |-> FALSE, name |-> UNDEFINED, arguments |-> UNDEFINED,
   role |-> UNDEFINED, speaker |-> UNDEFINED, content |-> UNDEFINED,
   text |-> UNDEFINED, status |-> UNDEFINED, error |-> UNDEFINED]

ToolData(name, arguments) ==
  [NoEventData EXCEPT !.present = TRUE, !.name = name, !.arguments = arguments]
TranscriptData(role, speaker, content, text) ==
  [NoEventData EXCEPT !.present = TRUE, !.role = role, !.speaker = speaker,
                      !.content = content, !.text = text]
StatusData(status) == [NoEventData EXCEPT !.present = TRUE, !.status = status]
ErrorData(error) == [NoEventData EXCEPT !.present = TRUE, !.error = error]

VapiEvent(type, data) == [type |-> type, data |-> data]

RecognizedTypes ==
  {"call-started", "speech-started", "speech-ended", "transcript", "tool-call",
   "call-ended", "call-status", "error"}
OtherTypes == {"status-update", "hang", ""}

ToolNames == {UNDEFINED, "gatherInformation", "transferCall", "sendDtmf"}
ToolArguments == {UNDEFINED, "{title}"}

\* The events the callback may be passed.
VapiEvents ==
  {VapiEvent(t, NoEventData) : t \in RecognizedTypes \cup OtherTypes}
  \cup {VapiEvent(t, ToolData(n, a)) :
          t \in {"tool-call"} \cup OtherTypes, n \in ToolNames, a \in ToolArguments}
  \cup {VapiEvent("transcript", TranscriptData(r, sp, c, x)) :
          r \in {UNDEFINED, "assistant", "user"}, sp \in {UNDEFINED, "VOX"},
          c \in {UNDEFINED, "", "hi"}, x \in {UNDEFINED, "yo"}}
  \cup {VapiEvent("call-status", StatusData(st)) : st \in {UNDEFINED, "ringing"}}
  \cup {VapiEvent("error", ErrorData(er)) : er \in {UNDEFINED, "boom"}}

\* A StreamEvent without id and timestamp; message is the template's pieces.
NoStreamData == [infoGathered |-> UNDEFINED, bridgeReason |-> UNDEFINED]
StreamEvent(type, message, data) ==
  [type |-> type, message |-> message, data |-> data]

\* Reading vapiEvent.data.function.arguments without optional chaining
\* raises a TypeError when data is absent.
TypeError == "TypeError"
FunctionArguments(e) == IF e.data.present THEN e.data.arguments ELSE TypeError

\* What stands for a normalizer call that raised instead of returning.
Raised == StreamEvent(TypeError, <<>>, NoStreamData)

\* Variant: every tool call is shown by its name only.
ToolCallByNameOnly(e) ==
  StreamEvent("action", <<"Tool called: ", Or(e.data.name, "Unknown")>>,
              NoStreamData)

\* case 'tool-call'
ToolCall(e) ==
  IF e.data.name = "gatherInformation"
    THEN IF FunctionArguments(e) = TypeError THEN Raised
         ELSE StreamEvent("info", <<"Information successfully gathered">>,
                          [NoStreamData EXCEPT !.infoGathered = FunctionArguments(e)])
  ELSE IF e.data.name = "transferCall"
    THEN StreamEvent("bridge",
                     <<"Transferring call to user - Human interaction required">>,
                     [NoStreamData EXCEPT !.bridgeReason = "operator_required"])
  ELSE StreamEvent("action", <<"Tool called: ", Or(e.data.name, "Unknown")>>,
                   NoStreamData)

\* Variant: an unrecognized event is shown as a status change.
DefaultAsStatus(e) ==
  StreamEvent("system", <<"Call status: ", e.data.status>>, NoStreamData)

\* default:
Default(e) == StreamEvent("system", <<"Event: ", e.type>>, NoStreamData)

\* convertVAPIEventToStreamEvent(vapiEvent)
ConvertVAPIEventToStreamEvent(e) ==
  CASE e.type = "call-started" ->
         StreamEvent("system", <<"Call initiated - Connecting to phone system...">>,
                     NoStreamData)
    [] e.type = "speech-started" ->
         StreamEvent("system", <<"VOX is speaking...">>, NoStreamData)
    [] e.type = "speech-ended" ->
         StreamEvent("system", <<"Listening for response...">>, NoStreamData)
    [] e.type = "transcript" ->
         StreamEvent(IF e.data.role = "assistant" THEN "action" ELSE "menu",
                     << Or(e.data.speaker,
                           IF e.data.role = "assistant" THEN "VOX" ELSE "Other Party"),
                        ": ",
                        Or(e.data.content, Or(e.data.text, "Audio detected")) >>,
                     NoStreamData)
    [] e.type = "tool-call" -> ToolCall(e)
    [] e.type = "call-ended" ->
         StreamEvent("complete", <<"Call completed successfully">>, NoStreamData)
    [] e.type = "call-status" ->
         StreamEvent("system", <<"Call status: ", e.data.status>>, NoStreamData)
    [] e.type = "error" ->
         StreamEvent("error", <<"Error: ", Or(e.data.error, "Unknown error occurred")>>,
                     NoStreamData)
    [] OTHER -> Default(e)

\* The callback given to setupWebhookHandler, as far as the stream goes: a
\* throw of the normalizer leaves the stream as it was.
OnVapiEvent(e) ==
  /\ Len(cvSeen) < MaxStream
  /\ cvSeen' = Append(cvSeen, e)
  /\ cvStream' = IF ConvertVAPIEventToStreamEvent(e) = Raised THEN cvStream
                 ELSE Append(cvStream, ConvertVAPIEventToStreamEvent(e))
  /\ UNCHANGED << pollVars, turnVars, parserVars, laterVars >>

NextConsume == \E e \in VapiEvents : OnVapiEvent(e)

SpecConsume == Init /\ [][NextConsume]_vars

\* C23: an event of an unrecognized type becomes a generic system entry that
\* names the type; no event is dropped and nothing is raised, so the stream
\* has exactly one entry per event passed to the callback.
C23_UnknownBecomesSystemEntry ==
  /\ Len(cvStream) = Len(cvSeen)
  /\ \A i \in 1..Len(cvSeen) :
       cvSeen[i].type \notin RecognizedTypes
       => cvStream[i] = [type |-> "system",
                         message |-> <<"Event: ", cvSeen[i].type>>,
                         data |-> NoStreamData]

C23_Witness ==
  /\ Len(cvSeen) = 2
  /\ cvSeen[1].type = "hang" /\ cvSeen[1].data.name = "sendDtmf"
  /\ cvSeen[2].type = "tool-call"
  /\ cvStream[1].message = <<"Event: ", "hang">>

C25_DelayWithinBounds ==
  /\ [](5000 <= pollDelay /\ pollDelay <= 30000)
  /\ [][\A w \in SingleWatch :
          (TickCompletes(w) /\ lastOutcome'[w].kind = "error"
             /\ lastOutcome'[w].error.rateLimit)
          => \/ pollDelay = 5000 /\ pollDelay' = 10000
             \/ pollDelay = 10000 /\ pollDelay' = 20000
             \/ pollDelay = 20000 /\ pollDelay' = 30000
             \/ pollDelay = 30000 /\ pollDelay' = 30000]_vars

C25_Witness ==
  /\ consecutiveErrors = 5
  /\ pollDelay = 30000
  /\ lastOutcome[1].kind = "error" /\ lastOutcome[1].error.rateLimit
  /\ finalCheck[1] = "timer"

\* ------------------------------------------- interval-based polling variant
\* Ticks of the interval.
MaxTicks == 3

\* What getCall resolves to in this variant.
IntervalCalls == {c \in Calls : c.summary = ""}

ErrorEvent == Event("error", "", "", "", <<>>, NoCall)

\* What the actions of this variant leave alone.
exceptInterval == << pollVars, turnVars, parserVars, consumerVars, dashVars,
                    storeVars >>

\* eventHandler(callId): setInterval(async () => ..., 1000)
IntervalWatch ==
  /\ ivInterval = "none"
  /\ ivInterval' = "running"
  /\ UNCHANGED << ivLastCallStatus, ivProcessed, ivInFlight, ivEvents, ivTicks,
                  ivTerminalResolves, exceptInterval >>

\* The interval fires: its callback starts getCall, whether or not an earlier
\* callback is still awaiting its own.
IntervalTick ==
  /\ ivInterval = "running"
  /\ ivTicks < MaxTicks
  /\ ivTicks' = ivTicks + 1
  /\ ivInFlight' = ivInFlight + 1
  /\ UNCHANGED << ivLastCallStatus, ivProcessed, ivInterval, ivEvents,
                  ivTerminalResolves, exceptInterval >>

\* One awaiting callback resumes with `call`: the rest of the try block runs
\* without a further suspension point.
IntervalResolved(call) ==
  /\ ivInFlight > 0
  /\ ivInFlight' = ivInFlight - 1
  /\ ivTerminalResolves' = ivTerminalResolves + (IF IsTerminal(call) THEN 1 ELSE 0)
  /\ ivLastCallStatus' =
       IF StatusChanged(call, ivLastCallStatus) THEN call.status ELSE ivLastCallStatus
  /\ LET statusEvents ==
           IF StatusChanged(call, ivLastCallStatus)
             THEN << StatusEvent(call.status) >> ELSE <<>>
     IN IF ShouldProcess(call, ivProcessed)
          THEN /\ ivProcessed' = TRUE
               /\ ivEvents' = ivEvents \o statusEvents \o TerminalEvents(call)
               /\ ivInterval' = "cleared"
          ELSE /\ ivEvents' = ivEvents \o statusEvents
               /\ UNCHANGED << ivProcessed, ivInterval >>
  /\ UNCHANGED << ivTicks, exceptInterval >>

\* One awaiting callback resumes with a rejection: the catch block.
IntervalRejected ==
  /\ ivInFlight > 0
  /\ ivInFlight' = ivInFlight - 1
  /\ ivEvents' = ivEvents \o << ErrorEvent >>
  /\ UNCHANGED << ivLastCallStatus, ivProcessed, ivInterval, ivTicks,
                  ivTerminalResolves, exceptInterval >>

\* The returned function: clearInterval(pollInterval)
IntervalCancel ==
  /\ ivInterval = "running"
  /\ ivInterval' = "cleared"
  /\ UNCHANGED << ivLastCallStatus, ivProcessed, ivInFlight, ivEvents, ivTicks,
                  ivTerminalResolves, exceptInterval >>

NextInterval ==
  \/ IntervalWatch
  \/ IntervalTick
  \/ \E call \in IntervalCalls : IntervalResolved(call)
  \/ IntervalRejected
  \/ IntervalCancel

SpecInterval == Init /\ [][NextInterval]_vars

\* The transcript and call-ended events passed to onEvent, in order.
TerminalOutput ==
  SelectSeq(ivEvents, LAMBDA e : e.type = "transcript" \/ e.type = "call-ended")

\* C26: in the interval-based loop terminal processing happens at most once
\* however the ticks overlap: the transcript and call-ended events passed to
\* onEvent are those of one terminal fetch, once, and the flag is set then.
C26_TerminalProcessingOnce ==
  /\ Cardinality({i \in 1..Len(ivEvents) : ivEvents[i].type = "call-ended"}) <= 1
  /\ IF ivProcessed
       THEN TerminalOutput = TerminalEvents(ivEvents[CHOOSE i \in 1..Len(ivEvents) :
                                                       ivEvents[i].type = "call-ended"].data)
       ELSE TerminalOutput = <<>>

C26_Witness ==
  /\ ivTicks = 3
  /\ ivInFlight = 0
  /\ ivTerminalResolves = 3
  /\ Len(TerminalOutput) = 4

\* ------------------------------------------- detector result to the executor
\* The decision detectDtmfFromText returned, as the args of executeAction.
ArgsOf(decision) ==
  [action |-> decision.action, digit |-> decision.digit, say |-> ""]

\* executeAction(decision, callbacks, customerNumber) on a non-null result of
\* the detector.
TakeDetectedAction(customerNumber) ==
  /\ dtResult # NotCalled
  /\ dtResult # Null
  /\ ExecuteAction(ArgsOf(dtResult), customerNumber)

NextTurn ==
  \/ Detect
  \/ \E customerNumber \in CustomerNumbers : TakeDetectedAction(customerNumber)
  \/ CallbackResolves
  \/ CallbackRejects

SpecTurn == InitDetect /\ [][NextTurn]_vars

\* C27: every non-null decision of the detector has action 'dtmf', a digit of
\* {0-9,*,#} and confidence 'high'; executeAction on it invokes sendDtmf
\* exactly once with that digit and never reports a missing digit; a text
\* that no pattern matches (here: one without `press`) gives null.
C27_DetectedDecisionIsExecutable ==
  /\ (dtResult # NotCalled /\ dtResult # Null)
     => /\ dtResult.action = "dtmf"
        /\ dtResult.digit \in {"0", "1", "2", "3", "4", "5", "6", "7", "8", "9", "*", "#"}
        /\ dtResult.confidence = "high"
  /\ Called
     => /\ exCalls = << [name |-> "sendDtmf", arg |-> dtResult.digit] >>
        /\ exPc = "returned"
           => exResult = [executed |-> TRUE, action |-> "dtmf",
                          details |-> <<"pressed ", dtResult.digit>>]
  /\ (dtResult # NotCalled /\ ~Contains(ToLowerCase(dtText), PRESS))
     => dtResult = Null

C27_Witness ==
  /\ dtText = P_FOR_X \o P_PRESS_HASH
  /\ dtResult.heard = "menu option"
  /\ exPc = "returned"
  /\ exCalls = << [name |-> "sendDtmf", arg |-> "#"] >>

\* C28: the regular ticks of one watch never overlap: no timer of a tick is
\* pending while a fetch is in flight; a timer is set only by the watch's
\* start (with the 3000 ms initial delay) or by the completion of a fetch;
\* and a fetch starts only when the pending timer fires.
C28_TicksNeverOverlap ==
  /\ [](\A w \in SingleWatch :
          /\ ~(pollTimeout[w].pending /\ pc[w] = "fetching")
          /\ (pollTimeout[w].pending /\ fetchCount[w] = 0)
             => pollTimeout[w].delay = 3000)
  /\ [][\A w \in SingleWatch :
          /\ (pollTimeout'[w].pending /\ ~pollTimeout[w].pending)
             => (pc[w] = "unstarted" \/ TickCompletes(w))
          /\ (pc'[w] = "fetching" /\ pc[w] # "fetching")
             => (pollTimeout[w].pending /\ ~pollTimeout'[w].pending)]_vars

C28_Witness ==
  /\ fetchCount[1] = 3
  /\ pc[1] = "fetching"
  /\ ~pollTimeout[1].pending
  /\ lastOutcome[1].kind = "error"
  /\ cancelled[1] = 0

\* --------------------------------------------- Dashboard: successive calls
\* Events one watcher passes to the callback.
MaxWatcherEvents == 2

\* Entries of streamEvents beyond which nobody clicks End Call.
MaxEntries == 3

\* What the actions of the Dashboard leave alone.
exceptDash == << pollVars, turnVars, parserVars, consumerVars, intervalVars,
                storeVars >>

\* An entry of streamEvents, with the call and the piece of code ("start",
\* "watcher" or "end") that appended it.
Entry(c, by, type, message) ==
  [call |-> c, by |-> by, event |-> StreamEvent(type, message, NoStreamData)]

\* Who last set callStatus.
SetBy(c, by) == [call |-> c, by |-> by]

\* A pending setTimeout callback set by the code of call c.
DashTimer(kind, c) == [kind |-> kind, call |-> c]

\* The events the polling loop passes to the callback.
WatcherEvents ==
  {VapiEvent("call-status", StatusData("in-progress")),
   VapiEvent("call-ended", NoEventData)}

\* catch (error) of handleStartCall
StartCallFailed(c) ==
  /\ dbStream' = Append(dbStream, Entry(c, "start", "error", <<"Failed to start call: ">>))
  /\ dbStatus' = "failed"
  /\ dbStatusBy' = SetBy(c, "start")
  /\ dbTimers' = dbTimers \cup {DashTimer("startFailedIdle", c)}
  /\ dbStart' = [dbStart EXCEPT ![c] = "failed"]

\* handleStartCall up to `await vapiService.testConnection()`; the button of
\* CallInputs is enabled whenever the form is valid or a call is active.
HandleStartCall(c) ==
  /\ dbStart[c] = "none"
  /\ c = dbLatest + 1
  /\ dbStream' = << Entry(c, "start", "system", <<"Initiating call to ">>) >>
  /\ dbCurrentCall' = [set |-> TRUE, vapiCallId |-> 0]
  /\ dbStatus' = "dialing"
  /\ dbStatusBy' = SetBy(c, "start")
  /\ dbLatest' = c
  /\ dbStart' = [dbStart EXCEPT ![c] = "connecting"]
  /\ UNCHANGED << dbWatcher, dbEmitted, dbEnding, dbTimers, exceptDash >>

\* testConnection has settled: on success the handler is created and
\* `await vapiService.startCall` begins.
ConnectionTested(c, ok) ==
  /\ dbStart[c] = "connecting"
  /\ IF ok
       THEN /\ dbStream' = Append(dbStream,
                 Entry(c, "start", "system",
                       <<"Connected to VAPI service - Creating AI assistant...">>))
            /\ dbStart' = [dbStart EXCEPT ![c] = "starting"]
            /\ UNCHANGED << dbStatus, dbStatusBy, dbTimers >>
       ELSE StartCallFailed(c)
  /\ UNCHANGED << dbCurrentCall, dbWatcher, dbEmitted, dbEnding, dbLatest,
                  exceptDash >>

\* startCall has settled: on success currentCall gets the id and the watch
\* starts; its cancellation handle is returned to nobody.
CallStarted(c, ok) ==
  /\ dbStart[c] = "starting"
  /\ IF ok
       THEN /\ dbCurrentCall' = IF dbCurrentCall.set
                                  THEN [dbCurrentCall EXCEPT !.vapiCallId = c]
                                  ELSE NoCurrentCall
            /\ dbWatcher' = [dbWatcher EXCEPT ![c] = "polling"]
            /\ dbStart' = [dbStart EXCEPT ![c] = "watching"]
            /\ UNCHANGED << dbStream, dbStatus, dbStatusBy, dbTimers >>
       ELSE /\ StartCallFailed(c)
            /\ UNCHANGED << dbCurrentCall, dbWatcher >>
  /\ UNCHANGED << dbEmitted, dbEnding, dbLatest, exceptDash >>

\* callStatus after the callback has looked at the event's type.
StatusAfter(e, status) ==
  IF e.type = "call-started" THEN "mapping"
  ELSE IF e.type = "tool-call" /\ e.data.name = "gatherInformation" THEN "ended"
  ELSE IF e.type = "tool-call" /\ e.data.name = "transferCall" THEN "bridged"
  ELSE IF e.type = "call-ended" THEN "ended"
  ELSE IF e.type = "error" THEN "failed"
  ELSE status

\* The timers the callback sets for the event.
TimersAfter(e, c) ==
  IF e.type = "call-ended" THEN {DashTimer("save", c), DashTimer("idle", c)}
  ELSE IF e.type = "error" THEN {DashTimer("idleAndForget", c)}
  ELSE {}

\* The watcher of call c passes e to the callback given to
\* setupWebhookHandler; the loop stops itself after call-ended.
WatcherEmits(c, e) ==
  /\ dbWatcher[c] = "polling"
  /\ dbEmitted[c] < MaxWatcherEvents
  /\ dbEmitted' = [dbEmitted EXCEPT ![c] = @ + 1]
  /\ dbStream' = Append(dbStream,
                        [call |-> c, by |-> "watcher",
                         event |-> ConvertVAPIEventToStreamEvent(e)])
  /\ dbStatus' = StatusAfter(e, dbStatus)
  /\ dbStatusBy' = IF StatusAfter(e, dbStatus) # dbStatus \/ e.type = "call-ended"
                     THEN SetBy(c, "watcher") ELSE dbStatusBy
  /\ dbTimers' = dbTimers \cup TimersAfter(e, c)
  /\ dbWatcher' = IF e.type = "call-ended"
                    THEN [dbWatcher EXCEPT ![c] = "stopped"] ELSE dbWatcher
  /\ UNCHANGED << dbCurrentCall, dbStart, dbEnding, dbLatest, exceptDash >>

\* End Call onClick up to `await vapiService.endCall(currentCall.vapiCallId)`.
EndCallClicked ==
  /\ dbStatus # "idle" /\ dbStatus # "ended"
  /\ dbCurrentCall.set /\ dbCurrentCall.vapiCallId # 0
  /\ dbCurrentCall.vapiCallId \notin dbEnding
  /\ Len(dbStream) < MaxEntries
  /\ dbStream' = Append(dbStream,
                        Entry(dbCurrentCall.vapiCallId, "end", "system",
                              <<"Ending call...">>))
  /\ dbEnding' = dbEnding \cup {dbCurrentCall.vapiCallId}
  /\ UNCHANGED << dbStatus, dbStatusBy, dbCurrentCall, dbStart, dbWatcher,
                  dbEmitted, dbTimers, dbLatest, exceptDash >>

\* endCall has settled.
EndCallSettled(c, ok) ==
  /\ c \in dbEnding
  /\ dbEnding' = dbEnding \ {c}
  /\ IF ok
       THEN /\ dbStream' = Append(dbStream,
                 Entry(c, "end", "complete", <<"Call ended successfully by user">>))
            /\ dbStatus' = "ended"
            /\ dbStatusBy' = SetBy(c, "end")
            /\ dbTimers' = dbTimers \cup {DashTimer("endIdle", c)}
       ELSE /\ dbStream' = Append(dbStream,
                 Entry(c, "end", "error", <<"Failed to end call: ">>))
            /\ UNCHANGED << dbStatus, dbStatusBy, dbTimers >>
  /\ UNCHANGED << dbCurrentCall, dbStart, dbWatcher, dbEmitted, dbLatest,
                  exceptDash >>

\* A pending setTimeout callback runs.
TimerRuns(t) ==
  /\ t \in dbTimers
  /\ CASE t.kind = "save" ->
            /\ dbTimers' = dbTimers \ {t}
            /\ UNCHANGED << dbStatus, dbStatusBy, dbCurrentCall, dbStream >>
       [] t.kind = "idle" ->
            /\ dbTimers' = dbTimers \ {t}
            /\ dbStatus' = "idle"
            /\ dbStatusBy' = SetBy(t.call, "watcher")
            /\ UNCHANGED << dbCurrentCall, dbStream >>
       [] t.kind = "idleAndForget" ->
            /\ dbTimers' = dbTimers \ {t}
            /\ dbStatus' = "idle"
            /\ dbStatusBy' = SetBy(t.call, "watcher")
            /\ dbCurrentCall' = NoCurrentCall
            /\ UNCHANGED dbStream
       [] t.kind = "startFailedIdle" ->
            /\ dbTimers' = dbTimers \ {t}
            /\ dbStatus' = "idle"
            /\ dbStatusBy' = SetBy(t.call, "start")
            /\ dbCurrentCall' = NoCurrentCall
            /\ UNCHANGED dbStream
       [] t.kind = "endIdle" ->
            /\ dbTimers' = (dbTimers \ {t}) \cup {DashTimer("clear", t.call)}
            /\ dbStatus' = "idle"
            /\ dbStatusBy' = SetBy(t.call, "end")
            /\ dbCurrentCall' = NoCurrentCall
            /\ UNCHANGED dbStream
       [] t.kind = "clear" ->
            /\ dbTimers' = dbTimers \ {t}
            /\ dbStream' = <<>>
            /\ UNCHANGED << dbStatus, dbStatusBy, dbCurrentCall >>
  /\ UNCHANGED << dbStart, dbWatcher, dbEmitted, dbEnding, dbLatest, exceptDash >>

\* "idleAndForget" is set by the callback for an error event, which the
\* timeout-based loop never passes.
TimerKinds == {"save", "idle", "startFailedIdle", "endIdle", "clear"}

NextDash ==
  \/ \E c \in DashCalls : HandleStartCall(c)
  \/ \E c \in DashCalls, ok \in BOOLEAN : ConnectionTested(c, ok)
  \/ \E c \in DashCalls, ok \in BOOLEAN : CallStarted(c, ok)
  \/ \E c \in DashCalls, e \in WatcherEvents : WatcherEmits(c, e)
  \/ EndCallClicked
  \/ \E c \in DashCalls, ok \in BOOLEAN : EndCallSettled(c, ok)
  \/ \E k \in TimerKinds, c \in DashCalls : TimerRuns(DashTimer(k, c))

SpecDash == Init /\ [][NextDash]_vars

\* C29: once handleStartCall has started a new call, the watcher of an
\* earlier call affects nothing: every entry of streamEvents appended by a
\* watcher's callback comes from the latest call's watcher, and when
\* callStatus was last set by a watcher's callback or by a timer that callback
\* set, it was the latest call's.
C29_OnlyLatestWatcherActs ==
  /\ \A i \in 1..Len(dbStream) :
       dbStream[i].by = "watcher" => dbStream[i].call = dbLatest
  /\ dbStatusBy.by = "watcher" => dbStatusBy.call = dbLatest

\* ------------------------------------------------- webhook: the event store
\* Requests served.
MaxRequests == 3

\* event.call?.id when the body has none.
NoId == ""

\* event.messages of a conversation-update and event.toolCalls of a
\* tool-calls event: absent, an array of objects, or an array holding null.
ItemShapes == {"absent", "objects", "null"}

WebhookEvent(type, id, items) == [type |-> type, id |-> id, items |-> items]

\* The bodies POST /webhook is sent: three of the types the switch names, one
\* it does not, and none at all ("").
WebhookEvents ==
  {WebhookEvent(t, id, "absent") :
     t \in {"transcript", "hang", "vendor-ping", ""}, id \in StoreIds \cup {NoId}}
  \cup {WebhookEvent(t, id, sh) :
          t \in {"conversation-update", "tool-calls"},
          id \in StoreIds \cup {NoId}, sh \in ItemShapes}

\* The logging switch raises a TypeError when it reads msg.role or
\* tool.function of a null element.
LoggingThrows(event) ==
  /\ event.type \in {"conversation-update", "tool-calls"}
  /\ event.items = "null"

\* { ...event, receivedAt: timestamp }
Stored(event, timestamp) ==
  [type |-> event.type, id |-> event.id, items |-> event.items,
   receivedAt |-> timestamp]

Request(op, id, event, status, returned) ==
  [op |-> op, id |-> id, event |-> event, status |-> status, events |-> returned]

NoWebhookEvent == WebhookEvent("", NoId, "absent")

\* app.post('/webhook'): log, store under event.call.id when there is one,
\* answer 200; an exception of the handler is answered 500 by Express.
PostWebhook(event) ==
  /\ Len(stLog) < MaxRequests
  /\ IF LoggingThrows(event)
       THEN /\ stLog' = Append(stLog, Request("POST", event.id, event, 500, <<>>))
            /\ UNCHANGED callEvents
       ELSE /\ stLog' = Append(stLog, Request("POST", event.id, event, 200, <<>>))
            /\ callEvents' =
                 IF event.id # NoId
                   THEN [callEvents EXCEPT ![event.id] =
                           [has |-> TRUE,
                            list |-> Append(@.list, Stored(event, Len(stLog) + 1))]]
                   ELSE callEvents
  /\ UNCHANGED << pollVars, turnVars, parserVars, consumerVars, intervalVars,
                  dashVars >>

\* app.get('/events/:callId'): callEvents.get(callId) || []
GetEvents(id) ==
  /\ Len(stLog) < MaxRequests
  /\ stLog' = Append(stLog, Request("GET", id, NoWebhookEvent, 200,
                                    IF callEvents[id].has THEN callEvents[id].list
                                    ELSE <<>>))
  /\ UNCHANGED << callEvents, pollVars, turnVars, parserVars, consumerVars,
                  intervalVars, dashVars >>

\* app.delete('/events/:callId'): callEvents.delete(callId)
DeleteEvents(id) ==
  /\ Len(stLog) < MaxRequests
  /\ callEvents' = [callEvents EXCEPT ![id] = NoEntry]
  /\ stLog' = Append(stLog, Request("DELETE", id, NoWebhookEvent, 200, <<>>))
  /\ UNCHANGED << pollVars, turnVars, parserVars, consumerVars, intervalVars,
                  dashVars >>

NextStore ==
  \/ \E event \in WebhookEvents : PostWebhook(event)
  \/ \E id \in StoreIds : GetEvents(id)
  \/ \E id \in StoreIds : DeleteEvents(id)

SpecStore == Init /\ [][NextStore]_vars

\* The events posted with call id `id` among the first n requests since the
\* last DELETE for it, in arrival order, as they are stored.
RECURSIVE PostedSinceDelete(_, _)
PostedSinceDelete(n, id) ==
  IF n = 0 THEN <<>>
  ELSE IF stLog[n].op = "DELETE" /\ stLog[n].id = id THEN <<>>
  ELSE IF stLog[n].op = "POST" /\ stLog[n].id = id
    THEN Append(PostedSinceDelete(n - 1, id),
                [type |-> stLog[n].event.type, id |-> id,
                 items |-> stLog[n].event.items, receivedAt |-> n])
  ELSE PostedSinceDelete(n - 1, id)

\* C30: after any sequence of requests the list of a call is exactly the
\* events posted with its id since the last DELETE for it, in arrival order
\* (so a request for one call leaves the others' lists alone); every GET
\* returned that list and left the Map without a new key; every POST was
\* acknowledged with 200, whatever its type.
C30_StoreMatchesRequests ==
  /\ \A id \in StoreIds :
       /\ callEvents[id].list = PostedSinceDelete(Len(stLog), id)
       /\ callEvents[id].has <=> PostedSinceDelete(Len(stLog), id) # <<>>
  /\ \A n \in 1..Len(stLog) :
       /\ stLog[n].op = "GET" => stLog[n].events = PostedSinceDelete(n - 1, stLog[n].id)
       /\ stLog[n].op = "POST" => stLog[n].status = 200

====
